---- MODULE Spec2Model ----
(***************************************************************************)
(* Wound-Analysis: the output parsers of src/app.py, the statistical       *)
(* analyzer of src/modules/analysis.py, the summary embedded by            *)
(* src/modules/tasks.py and the session handlers of main().                *)
(*                                                                         *)
(* A text is a sequence of characters, each character a one-character      *)
(* string; the back-tick is written BQ because the TLA+ lexer does not     *)
(* accept it inside a string.                                              *)
(***************************************************************************)
EXTENDS FiniteSets, Integers, Sequences, TLC

VARIABLES
    pc,        \* position of the run under study
    output,    \* the response handed to a parser: [kind, text]
    result,    \* what the parser returned or raised
    df,        \* the table analyze_trends works on: [columns, rows, categories]
    weekly,    \* analyze_trends' local `weekly`
    analysis,  \* analyze_trends' result dict: field name -> value
    failed,    \* the sub-computations of analyze_trends that raised
    summary,   \* create_hypothesis_task's local `summary`
    truncated_summary, \* create_hypothesis_task's local `truncated_summary`
    uploaded_file,     \* the file in the uploader, or NoFile
    session_state,     \* st.session_state: slot name -> value
    run                \* the latest run of main(): what it rendered and did

parserVars == <<output, result>>
trendVars == <<df, weekly, analysis, failed>>
taskVars == <<summary, truncated_summary>>
sessionVars == <<uploaded_file, session_state, run>>
vars == <<pc, output, result, df, weekly, analysis, failed, summary, truncated_summary,
          uploaded_file, session_state, run>>

\* a local name before and after its assignment, a dict without entries
Unbound == [bound |-> FALSE, frame |-> <<>>]
Bound(frame) == [bound |-> TRUE, frame |-> frame]
EmptyDict == <<>>
NoTable == [columns |-> {}, rows |-> <<>>, categories |-> <<>>]
NoResponse == [kind |-> "none", text |-> <<>>]
NoResult == [pending |-> TRUE]

\* the parts of the state a run does not touch
ParserIdle == output = NoResponse /\ result = NoResult
TrendsIdle == df = NoTable /\ weekly = Unbound /\ analysis = EmptyDict /\ failed = {}
TaskIdle == summary = <<>> /\ truncated_summary = <<>>
NoFile == "none"
\* a run of main(): the action that caused it, the elements rendered in
\* order, the buttons shown, the handlers entered, the calls of
\* crew.kickoff(), whether the action failed, whether the script was left
\* through the outer handler
NoRun == [action |-> "none", rendered |-> <<>>, buttons |-> {}, handlers |-> {},
          kickoffs |-> 0, failed |-> FALSE, aborted |-> FALSE]
SessionIdle == uploaded_file = NoFile /\ session_state = EmptyDict /\ run = NoRun

-----------------------------------------------------------------------------
(* Characters and Python's str / re primitives                             *)

NL == "\n"
BQ == "BQ"

\* the characters Python's str.strip() and the regex class \s remove, as far
\* as the inputs below contain them
WS == {" ", NL}

UpperCase == {"A", "B", "C", "D", "E", "F", "G", "H", "I", "J", "K", "L", "M",
              "N", "O", "P", "Q", "R", "S", "T", "U", "V", "W", "X", "Y", "Z"}
LowerCase == {"a", "b", "c", "d", "e", "f", "g", "h", "i", "j", "k", "l", "m",
              "n", "o", "p", "q", "r", "s", "t", "u", "v", "w", "x", "y", "z"}
Digits == {"0", "1", "2", "3", "4", "5", "6", "7", "8", "9"}

\* the regex class \w
WordChar == UpperCase \cup LowerCase \cup Digits \cup {"_"}

SetMin(S) == CHOOSE x \in S : \A y \in S : x <= y
SetMax(S) == CHOOSE x \in S : \A y \in S : y <= x

\* the elements of a finite set of integers in increasing order
SortedSeq(S) ==
    [k \in 1..Cardinality(S) |->
        CHOOSE p \in S : Cardinality({q \in S : q < p}) = k - 1]

\* str.strip()
strip(s) ==
    LET keep == {i \in 1..Len(s) : s[i] \notin WS}
    IN  IF keep = {} THEN <<>> ELSE SubSeq(s, SetMin(keep), SetMax(keep))

\* str.startswith(prefix)
startswith(s, prefix) ==
    Len(s) >= Len(prefix) /\ SubSeq(s, 1, Len(prefix)) = prefix

\* str.split(sep) for a one-character separator: never empty, ''.split(sep) = ['']
str_split(s, sep) ==
    LET at   == {i \in 1..Len(s) : s[i] = sep}
        cuts == <<0>> \o SortedSeq(at) \o <<Len(s) + 1>>
    IN  [k \in 1..(Cardinality(at) + 1) |-> SubSeq(s, cuts[k] + 1, cuts[k + 1] - 1)]

\* `needle in haystack` for texts
Contains(haystack, needle) ==
    \E i \in 0..(Len(haystack) - Len(needle)) :
        SubSeq(haystack, i + 1, i + Len(needle)) = needle

\* the pieces of s between the positions of `at`, which are dropped
SplitAt(s, at) ==
    LET cuts == <<0>> \o SortedSeq(at) \o <<Len(s) + 1>>
    IN  [k \in 1..(Cardinality(at) + 1) |-> SubSeq(s, cuts[k] + 1, cuts[k + 1] - 1)]

\* does pattern p occur in s at position i
At(s, i, p) == i + Len(p) - 1 <= Len(s) /\ SubSeq(s, i, i + Len(p) - 1) = p

\* the position after the longest run of whitespace starting at i (regex \s*)
WsRunEnd(s, i) == SetMin({j \in i..(Len(s) + 1) : j = Len(s) + 1 \/ s[j] \notin WS})

\* sep.join(pieces)
RECURSIVE Join(_, _)
Join(pieces, sep) ==
    IF pieces = <<>> THEN <<>>
    ELSE IF Len(pieces) = 1 THEN pieces[1]
    ELSE pieces[1] \o <<sep>> \o Join(Tail(pieces), sep)

\* a raised ValueError: the literal fragments of its message in order, and the
\* texts interpolated into it
Raised(msg, args) == [ok |-> FALSE, error |-> [msg |-> msg, args |-> args]]
Returned(value) == [ok |-> TRUE, value |-> value]

\* str(output) as the f-strings interpolate it: the text itself, or the text
\* the wrapper prints
str(out) == out.text

-----------------------------------------------------------------------------
(* parse_validation_output, src/app.py:52-80                               *)

StatusLabel == <<"-", " ", "S", "t", "a", "t", "u", "s", ":">>
EvidenceLabel == <<"-", " ", "E", "v", "i", "d", "e", "n", "c", "e", ":">>

\* re.split(r'\n\s*\n', text): the leftmost match starts at a newline and,
\* \s* being greedy, ends at the last newline of the whitespace run after it
BlankMatchEnd(s, i) ==
    LET ends == {j \in (i + 1)..(WsRunEnd(s, i + 1) - 1) : s[j] = NL}
    IN  IF s[i] = NL /\ ends # {} THEN SetMax(ends) ELSE 0

RECURSIVE split_blocks(_, _)
split_blocks(s, from) ==
    LET starts == {i \in from..Len(s) : BlankMatchEnd(s, i) # 0}
    IN  IF starts = {} THEN <<SubSeq(s, from, Len(s))>>
        ELSE LET i == SetMin(starts)
             IN  <<SubSeq(s, from, i - 1)>> \o split_blocks(s, BlankMatchEnd(s, i) + 1)

\* status_line.split(':')[1].strip(), app.py:68-69
after_label(line) == strip(str_split(line, ":")[2])

\* the loop as it would be if a bad block were skipped instead of raising
RECURSIVE validation_loop_skipping(_, _, _)
validation_loop_skipping(blocks, i, validations) ==
    IF i > Len(blocks) THEN Returned(validations)
    ELSE LET lines == str_split(strip(blocks[i]), NL)
         IN  IF /\ Len(lines) >= 2
                /\ startswith(strip(lines[1]), StatusLabel)
                /\ startswith(strip(lines[2]), EvidenceLabel)
             THEN validation_loop_skipping(blocks, i + 1,
                      Append(validations,
                             [status   |-> after_label(strip(lines[1])),
                              evidence |-> after_label(strip(lines[2]))]))
             ELSE validation_loop_skipping(blocks, i + 1, validations)

\* the loop of app.py:62-74 from block i on, validations being the records
\* appended so far; the first bad block raises
RECURSIVE validation_loop(_, _, _)
validation_loop(blocks, i, validations) ==
    IF i > Len(blocks) THEN Returned(validations)
    ELSE LET block == blocks[i]
             lines == str_split(strip(block), NL)
         IN  IF Len(lines) >= 2
             THEN LET status_line   == strip(lines[1])
                      evidence_line == strip(lines[2])
                  IN  IF startswith(status_line, StatusLabel)
                         /\ startswith(evidence_line, EvidenceLabel)
                      THEN validation_loop(blocks, i + 1,
                               Append(validations,
                                      [status   |-> after_label(status_line),
                                       evidence |-> after_label(evidence_line)]))
                      ELSE Raised(<<"Invalid format in validation block: ">>, <<block>>)
             ELSE Raised(<<"Insufficient lines in validation block: ">>, <<block>>)

\* except ValueError as e: raise ValueError(f"<prefix>{str(e)}")
reraise(prefix, r) ==
    IF r.ok THEN r ELSE Raised(<<prefix>> \o r.error.msg, r.error.args)

parse_validation_output(out) ==
    IF out.kind \notin {"str", "raw"}
    THEN reraise("Error parsing validation results: ",
                 Raised(<<"Unexpected output format from agent">>, <<>>))
    ELSE LET text   == strip(out.text)
             blocks == split_blocks(text, 1)
             r      == validation_loop(blocks, 1, <<>>)
         IN  IF r.ok /\ r.value = <<>>
             THEN reraise("Error parsing validation results: ",
                          Raised(<<"No valid validations found. Raw output: ">>,
                                 <<str(out)>>))
             ELSE reraise("Error parsing validation results: ", r)

-----------------------------------------------------------------------------
(* Hypothesis, src/modules/validation.py:4-13, and parse_hypothesis_output, *)
(* src/app.py:26-50                                                        *)

\* the pydantic model: statement, confidence and supporting_data carry no
\* default, so all three are required; a ValidationError is a ValueError
HypothesisRequired == {"statement", "confidence", "supporting_data"}

Hypothesis(kwargs) ==
    IF HypothesisRequired \subseteq DOMAIN kwargs
    THEN IF ~(0 <= kwargs.confidence /\ kwargs.confidence <= 1)
         THEN Raised(<<"validation error for Hypothesis: confidence">>, <<>>)
         ELSE IF kwargs.supporting_data = <<>>
         THEN Raised(<<"Supporting data cannot be empty">>, <<>>)
         ELSE Returned(kwargs)
    ELSE Raised(<<"validation errors for Hypothesis: field required">>, <<>>)

Fence == <<BQ, BQ, BQ>>
PythonTag == <<"p", "y", "t", "h", "o", "n">>
AgentStopped == <<"A", "g", "e", "n", "t", " ", "s", "t", "o", "p", "p", "e", "d">>
MinSentenceLen == 5

\* one match of r'```(?:python)?\s*|\s*```' starting at i: the position after
\* it, or 0 when neither alternative matches there
FenceMatchEnd(s, i) ==
    IF At(s, i, Fence)
    THEN WsRunEnd(s, IF At(s, i + 3, PythonTag) THEN i + 9 ELSE i + 3)
    ELSE IF At(s, WsRunEnd(s, i), Fence) THEN WsRunEnd(s, i) + 3
    ELSE 0

\* re.sub(r'```(?:python)?\s*|\s*```', '', text) from position i on
RECURSIVE remove_fences(_, _)
remove_fences(s, i) ==
    IF i > Len(s) THEN <<>>
    ELSE IF FenceMatchEnd(s, i) # 0 THEN remove_fences(s, FenceMatchEnd(s, i))
    ELSE <<s[i]>> \o remove_fences(s, i + 1)

\* r'(?<!\w\.\w.)(?<![A-Z][a-z]\.)(?<=\.|\?)\s' matches the whitespace at i
SentenceBoundary(s, i) ==
    /\ s[i] \in WS
    /\ i > 1 /\ s[i - 1] \in {".", "?"}
    /\ ~(i > 4 /\ s[i - 4] \in WordChar /\ s[i - 3] = "." /\ s[i - 2] \in WordChar
               /\ s[i - 1] # NL)
    /\ ~(i > 3 /\ s[i - 3] \in UpperCase /\ s[i - 2] \in LowerCase /\ s[i - 1] = ".")

split_sentences(text) == SplitAt(text, {i \in 1..Len(text) : SentenceBoundary(text, i)})

\* the filter of app.py:41
ValidSentence(s) ==
    /\ strip(s) # <<>>
    /\ Len(strip(s)) > MinSentenceLen
    /\ ~startswith(strip(s), AgentStopped)

filter_sentences(sentences) ==
    LET kept == SelectSeq(sentences, ValidSentence)
    IN  [k \in 1..Len(kept) |-> strip(kept[k])]

\* [Hypothesis(statement=sentence) for sentence in sentences]: the first
\* construction that raises ends the comprehension
RECURSIVE build_hypotheses(_, _, _)
build_hypotheses(sentences, i, hypotheses) ==
    IF i > Len(sentences) THEN Returned(hypotheses)
    ELSE LET h == Hypothesis([statement |-> sentences[i]])
         IN  IF h.ok THEN build_hypotheses(sentences, i + 1, Append(hypotheses, h.value))
             ELSE h

\* the sentences that reach line 44
surviving_sentences(out) ==
    filter_sentences(split_sentences(strip(remove_fences(strip(out.text), 1))))

\* the parser as it would be without the emptiness check of line 44
parse_hypothesis_output_unchecked(out) ==
    IF out.kind \notin {"str", "raw"}
    THEN reraise("Error parsing hypotheses: ",
                 Raised(<<"Unexpected output format from agent">>, <<>>))
    ELSE reraise("Error parsing hypotheses: ",
                 build_hypotheses(surviving_sentences(out), 1, <<>>))

parse_hypothesis_output(out) ==
    IF out.kind \notin {"str", "raw"}
    THEN reraise("Error parsing hypotheses: ",
                 Raised(<<"Unexpected output format from agent">>, <<>>))
    ELSE LET sentences == surviving_sentences(out)
         IN  IF sentences = <<>>
             THEN reraise("Error parsing hypotheses: ",
                          Raised(<<"No valid hypotheses found. Raw output: ">>,
                                 <<str(out)>>))
             ELSE reraise("Error parsing hypotheses: ",
                          build_hypotheses(sentences, 1, <<>>))

-----------------------------------------------------------------------------
(* Validation responses: up to MaxLines lines joined by newlines           *)

MaxLines == 5

ValLines ==
    { StatusLabel \o <<" ", "o", "k">>,            \* - Status: ok
      StatusLabel \o <<" ", "a", ":", "b">>,       \* - Status: a:b
      EvidenceLabel \o <<" ", "u", "p">>,          \* - Evidence: up
      EvidenceLabel \o <<" ", "2", ":", "1">>,     \* - Evidence: 2:1
      <<>>,                                        \* a blank line
      <<"n", "o", "t", "e">> }                     \* a line without a label

ValTexts == {Join(ls, NL) : ls \in UNION {[1..n -> ValLines] : n \in 0..MaxLines}}

\* a plain string, a wrapper exposing .raw, or an object that is neither (the
\* integer 42, whose text is what str() prints)
Responses(texts) ==
    [kind : {"str", "raw"}, text : texts] \cup {[kind |-> "other", text |-> <<"4", "2">>]}

InitVal ==
    /\ pc = "validation"
    /\ output \in Responses(ValTexts)
    /\ result = NoResult
    /\ TrendsIdle
    /\ TaskIdle
    /\ SessionIdle

ParseValidation ==
    /\ pc = "validation"
    /\ result' = parse_validation_output(output)
    /\ pc' = "validation_done"
    /\ UNCHANGED <<output, trendVars, taskVars, sessionVars>>

NextVal == ParseValidation

SpecVal == InitVal /\ [][NextVal]_vars

-----------------------------------------------------------------------------
(* Hypothesis responses: up to MaxTokens pieces joined by one separator    *)

MaxTokens == 3

HypTokens ==
    { <<"S", "a", "l", "e", "s", " ", "r", "o", "s", "e", " ",
        "s", "h", "a", "r", "p", "l", "y", ".">>,      \* Sales rose sharply.
      <<"P", "r", "o", "d", "u", "c", "t", " ", "X", " ", "u", "n", "d", "e", "r",
        "p", "e", "r", "f", "o", "r", "m", "e", "d", ".">>, \* Product X underperformed.
      <<"W", "h", "y", "?">>,                          \* Why?
      AgentStopped \o <<" ", "e", "a", "r", "l", "y", ".">>, \* Agent stopped early.
      <<"D", "r", ".">>,                               \* Dr.
      <<"U", ".", "S", ".">>,                          \* U.S.
      Fence \o PythonTag,
      Fence }

HypTexts ==
    {Join(ps, sep) : ps \in UNION {[1..n -> HypTokens] : n \in 0..MaxTokens},
                     sep \in WS}

InitHyp ==
    /\ pc = "hypothesis"
    /\ output \in Responses(HypTexts)
    /\ result = NoResult
    /\ TrendsIdle
    /\ TaskIdle
    /\ SessionIdle

ParseHypothesis ==
    /\ pc = "hypothesis"
    /\ result' = parse_hypothesis_output(output)
    /\ pc' = "hypothesis_done"
    /\ UNCHANGED <<output, trendVars, taskVars, sessionVars>>

NextHyp == ParseHypothesis

SpecHyp == InitHyp /\ [][NextHyp]_vars

-----------------------------------------------------------------------------
(* The claims about the two parsers                                        *)

IsText(out) == out.kind \in {"str", "raw"}

\* the candidate sentences of a response, before the filter
candidates(out) == split_sentences(strip(remove_fences(strip(out.text), 1)))

\* the blocks of a validation response and their shape
blocks_of(out) == split_blocks(strip(out.text), 1)
block_lines(block) == str_split(strip(block), NL)
WellFormedBlock(block) ==
    /\ Len(block_lines(block)) >= 2
    /\ startswith(strip(block_lines(block)[1]), StatusLabel)
    /\ startswith(strip(block_lines(block)[2]), EvidenceLabel)

\* the whole of a line after its first colon, trimmed
after_first_colon(line) ==
    strip(SubSeq(line, SetMin({i \in 1..Len(line) : line[i] = ":"}) + 1, Len(line)))

\* C1: a response that splits into exactly two candidate sentences, each longer
\* than 5 characters and not beginning with 'Agent stopped', parses into
\* exactly two Hypothesis records carrying those sentences in order.
C1_TwoSentencesGiveTwoHypotheses ==
    ( /\ pc = "hypothesis_done"
      /\ IsText(output)
      /\ Len(candidates(output)) = 2
      /\ \A k \in 1..2 : ValidSentence(candidates(output)[k]) )
    => /\ result.ok
       /\ Len(result.value) = 2
       /\ \A k \in 1..2 : result.value[k].statement = strip(candidates(output)[k])

\* C2: a response of n >= 1 well-formed blocks parses into n records in input
\* order, record i holding everything after the first colon of block i's
\* first and second line, trimmed.
C2_RecordsKeepTextAfterFirstColon ==
    ( /\ pc = "validation_done"
      /\ IsText(output)
      /\ \A i \in 1..Len(blocks_of(output)) : WellFormedBlock(blocks_of(output)[i]) )
    => /\ result.ok
       /\ Len(result.value) = Len(blocks_of(output))
       /\ \A i \in 1..Len(blocks_of(output)) :
             /\ result.value[i].status =
                    after_first_colon(strip(block_lines(blocks_of(output)[i])[1]))
             /\ result.value[i].evidence =
                    after_first_colon(strip(block_lines(blocks_of(output)[i])[2]))

\* C3: when any block of a validation response is not well-formed, the parse
\* fails for the whole response and no record is returned.
C3_BadBlockFailsWholeResponse ==
    ( /\ pc = "validation_done"
      /\ IsText(output)
      /\ \E i \in 1..Len(blocks_of(output)) : ~WellFormedBlock(blocks_of(output)[i]) )
    => ~result.ok

\* a well-formed block followed by a bad one, and the parse has failed
C3_Witness ==
    /\ pc = "validation_done"
    /\ IsText(output)
    /\ Len(blocks_of(output)) = 2
    /\ WellFormedBlock(blocks_of(output)[1])
    /\ ~WellFormedBlock(blocks_of(output)[2])
    /\ ~result.ok

\* the error carries the complete raw text of the response
CarriesRawText(r, out) ==
    \E k \in 1..Len(r.error.args) : Contains(r.error.args[k], out.text)

\* C4: every parsing error raised by either parser carries the complete raw
\* input text of the response.
C4_ErrorCarriesRawText ==
    (pc \in {"hypothesis_done", "validation_done"} /\ ~result.ok)
    => CarriesRawText(result, output)

\* C5: when no candidate sentence survives the filter, the hypothesis parser
\* fails with the parsing error for that case and returns no list.
C5_NoSurvivorFails ==
    ( /\ pc = "hypothesis_done"
      /\ IsText(output)
      /\ \A k \in 1..Len(candidates(output)) : ~ValidSentence(candidates(output)[k]) )
    => /\ ~result.ok
       /\ result.error.msg = <<"Error parsing hypotheses: ",
                                "No valid hypotheses found. Raw output: ">>

\* the empty text, and a text whose only candidates are filtered out
C5_Witness ==
    /\ pc = "hypothesis_done"
    /\ IsText(output)
    /\ candidates(output) # <<>>
    /\ Len(strip(output.text)) > 0
    /\ \A k \in 1..Len(candidates(output)) : ~ValidSentence(candidates(output)[k])
    /\ ~result.ok

\* The hypothesis parser returns a list on no response at all: Hypothesis is
\* built from the statement alone (app.py:47) and always lacks its required
\* fields.  Hence app.py:151 never stores a hypothesis list in the session,
\* and the Validate Hypotheses handler (app.py:172-191), which is rendered
\* only once a list is stored (app.py:160), never runs.
HypothesisParserNeverReturns == pc = "hypothesis_done" => ~result.ok

-----------------------------------------------------------------------------
(* analyze_trends, src/modules/analysis.py:10-136                          *)
(*                                                                         *)
(* A table is [columns, rows, categories]: the column names, the rows as    *)
(* records, and the ordered categories of WEEK once line 22 has set them.   *)
(* A sample is summarised by [n, sum, sumsq], which fixes its mean and its  *)
(* variance; figures and matrices are kept as the frame they are built of.  *)

RequiredCols == {"WEEK", "TOTAL_WOUND_AREA", "NAME", "WOUND_COUNT", "AVG_WOUND_AREA"}
SeasonalMinWeeks == 12
TopProducts == 10

DigitSeq == <<"0", "1", "2", "3", "4", "5", "6", "7", "8", "9">>
WeekPrefix == <<"W", "e", "e", "k", " ">>

\* str(n) for n >= 0
RECURSIVE Decimal(_)
Decimal(n) ==
    IF n < 10 THEN <<DigitSeq[n + 1]>>
    ELSE Decimal(n \div 10) \o <<DigitSeq[(n % 10) + 1]>>

WeekLabel(n) == WeekPrefix \o Decimal(n)

\* x.split()[-1]: the last whitespace-separated token
last_token(x) ==
    LET t  == strip(x)
        ws == {i \in 1..Len(t) : t[i] \in WS}
    IN  IF ws = {} THEN t ELSE SubSeq(t, SetMax(ws) + 1, Len(t))

\* int(token) succeeds on a non-empty run of digits
IsInt(token) == token # <<>> /\ \A i \in 1..Len(token) : token[i] \in Digits

RECURSIVE int(_)
int(token) ==
    IF token = <<>> THEN 0
    ELSE 10 * int(SubSeq(token, 1, Len(token) - 1))
         + (CHOOSE d \in 0..9 : DigitSeq[d + 1] = token[Len(token)])

\* the sort key of line 23
week_key(x) == int(last_token(x))

\* code-point order of the characters week labels are made of
CharOrder == <<" ", "0", "1", "2", "3", "4", "5", "6", "7", "8", "9", "W", "b", "e", "k">>
Code(c) == CHOOSE i \in 1..Len(CharOrder) : CharOrder[i] = c

\* a < b for Python strings
str_less(a, b) ==
    \E i \in 1..(Len(a) + 1) :
        /\ i <= Len(b)
        /\ SubSeq(a, 1, i - 1) = SubSeq(b, 1, i - 1)
        /\ (i = Len(a) + 1 \/ Code(a[i]) < Code(b[i]))

\* df['WEEK'].unique()
unique_weeks(table) == {table.rows[i]["WEEK"] : i \in 1..Len(table.rows)}

\* sorted(labels, key=lambda x: int(x.split()[-1])), line 23
sorted_by_week_number(labels) ==
    [k \in 1..Cardinality(labels) |->
        CHOOSE x \in labels :
            Cardinality({y \in labels : week_key(y) < week_key(x)}) = k - 1]

\* sorted(labels) of a Categorical: iterating it yields the labels as plain
\* strings, which sorted() compares as strings, line 110
sorted_as_strings(labels) ==
    [k \in 1..Cardinality(labels) |->
        CHOOSE x \in labels : Cardinality({y \in labels : str_less(y, x)}) = k - 1]

\* the rows of a table selected by a column value
rows_where(table, col, v) == SelectSeq(table.rows, LAMBDA r : r[col] = v)

RECURSIVE column_sum(_, _)
column_sum(rows, col) ==
    IF rows = <<>> THEN 0 ELSE rows[1][col] + column_sum(Tail(rows), col)

RECURSIVE column_sumsq(_, _)
column_sumsq(rows, col) ==
    IF rows = <<>> THEN 0
    ELSE rows[1][col] * rows[1][col] + column_sumsq(Tail(rows), col)

sample(rows, col) ==
    [n |-> Len(rows), sum |-> column_sum(rows, col), sumsq |-> column_sumsq(rows, col)]

\* Series.var() > 1e-10 for integer data: the sample variance is
\* (n*sumsq - sum^2) / (n*(n-1)), zero or at least 1/(n*(n-1))
has_variance(smp) == smp.n > 1 /\ smp.n * smp.sumsq - smp.sum * smp.sum > 0

\* lines 31-32: one row per category, in category order, with the mean and
\* the deviation of the areas
weekly_means(table) ==
    [k \in 1..Len(table.categories) |->
        [WEEK       |-> table.categories[k],
         Wound_Area |-> sample(rows_where(table, "WEEK", table.categories[k]),
                               "TOTAL_WOUND_AREA")]]

\* lines 31-36: the same rows with the summed wound counts added
weekly_frame(table) ==
    [k \in 1..Len(table.categories) |->
        [WEEK         |-> table.categories[k],
         Wound_Area   |-> weekly_means(table)[k].Wound_Area,
         Total_Wounds |-> column_sum(rows_where(table, "WEEK", table.categories[k]),
                                     "WOUND_COUNT")]]

\* line 81: weekly.set_index('WEEK')['Mean_Wound_Area']
mean_series(frame) ==
    [k \in 1..Len(frame) |-> [WEEK |-> frame[k].WEEK, Mean_Wound_Area |-> frame[k].Wound_Area]]

\* product names, in the order groupby('NAME') lists them
ProductNames == <<"A", "B", "C", "D", "E", "F", "G", "H", "I", "J", "K", "L">>
name_rank(nm) == CHOOSE i \in 1..Len(ProductNames) : ProductNames[i] = nm

names_of(table) == {table.rows[i]["NAME"] : i \in 1..Len(table.rows)}

\* mean(a) > mean(b) for two samples
mean_greater(a, b) == a.sum * b.n > b.sum * a.n

\* lines 48-55: per product the mean area and the row count, products of mean 0
\* dropped, sorted by descending mean (ties in name order), the first 10 kept
product_frame(table) ==
    LET stats(nm) == sample(rows_where(table, "NAME", nm), "TOTAL_WOUND_AREA")
        kept      == {nm \in names_of(table) : stats(nm).sum > 0}
        before(a, b) == \/ mean_greater(stats(a), stats(b))
                        \/ (~mean_greater(stats(b), stats(a)) /\ name_rank(a) < name_rank(b))
        ranked    == [k \in 1..Cardinality(kept) |->
                         CHOOSE x \in kept :
                             Cardinality({y \in kept : before(y, x)}) = k - 1]
    IN  [k \in 1..(IF Len(ranked) < TopProducts THEN Len(ranked) ELSE TopProducts) |->
            [NAME |-> ranked[k], Wound_Area |-> stats(ranked[k]),
             Usage_Count |-> stats(ranked[k]).n]]

\* lines 57-66: the bar chart of the ranking, or of the placeholder row when
\* no product is left
product_figure(frame) ==
    IF frame # <<>>
    THEN [figure |-> "bar", frame |-> frame]
    ELSE [figure |-> "bar (No Valid Data)", frame |-> <<[NAME |-> "No Valid Data"]>>]

\* lines 93-98: per product the summed area and the row count
efficacy_frame(table) ==
    [nm \in names_of(table) |->
        [Total_Healed_Area |-> column_sum(rows_where(table, "NAME", nm), "TOTAL_WOUND_AREA"),
         Average_Treatment_Duration |-> Len(rows_where(table, "NAME", nm))]]

\* lines 72-74: the three numeric columns the matrix is computed from
NumericCols == {"TOTAL_WOUND_AREA", "WOUND_COUNT", "AVG_WOUND_AREA"}
numeric_frame(table) ==
    [i \in 1..Len(table.rows) |-> [c \in NumericCols |-> table.rows[i][c]]]

\* lines 109-131: one record per adjacent pair of `weeks`
ttest_records(table, weeks) ==
    [i \in 1..(Len(weeks) - 1) |->
        LET week1 == sample(rows_where(table, "WEEK", weeks[i]), "TOTAL_WOUND_AREA")
            week2 == sample(rows_where(table, "WEEK", weeks[i + 1]), "TOTAL_WOUND_AREA")
        IN  [week1 |-> weeks[i], week2 |-> weeks[i + 1],
             skipped |-> ~(has_variance(week1) /\ has_variance(week2))]]

\* analysis[key] = value
put(dict, key, value) == [k \in DOMAIN dict \cup {key} |-> IF k = key THEN value ELSE dict[k]]

\* the tagged error string a failed sub-computation leaves in its field
error_value(what) == [error |-> what]

\* an input check that looks at emptiness only
input_rejected_only_empty(table) ==
    \/ table.rows = <<>>
    \/ table.columns = {}

\* line 16: df.empty or a required column missing
input_rejected(table) ==
    \/ table.rows = <<>>
    \/ table.columns = {}
    \/ ~(RequiredCols \subseteq table.columns)

\* lines 14-18
CheckInput ==
    /\ pc = "analyze"
    /\ IF input_rejected(df)
       THEN /\ analysis' = put(analysis, "error", "Input DataFrame is empty or missing required columns")
            /\ pc' = "done"
       ELSE /\ pc' = "order_weeks"
            /\ UNCHANGED analysis
    /\ UNCHANGED <<df, weekly, failed, parserVars, taskVars, sessionVars>>

\* lines 21-27: df['WEEK'] raises KeyError (not caught) without the column;
\* int() raises ValueError (caught) on a label whose last token is no number
OrderWeeks ==
    /\ pc = "order_weeks"
    /\ IF "WEEK" \notin df.columns
       THEN pc' = "raised" /\ UNCHANGED <<df, analysis>>
       ELSE IF \A x \in unique_weeks(df) : IsInt(last_token(x))
       THEN /\ df' = [df EXCEPT !.categories = sorted_by_week_number(unique_weeks(df))]
            /\ pc' = "weekly_trends"
            /\ UNCHANGED analysis
       ELSE /\ analysis' = put(analysis, "error", "Failed to process WEEK column")
            /\ pc' = "done"
            /\ UNCHANGED df
    /\ UNCHANGED <<weekly, failed, parserVars, taskVars, sessionVars>>

\* a stage that reads a column the table lacks raises KeyError
has(cols) == cols \subseteq df.columns

\* lines 29-44; the stage can raise before `weekly` is bound (line 31) or
\* after the data is stored, while the figure is drawn (lines 39-42);
\* without WOUND_COUNT it raises at line 33, `weekly` bound to the means
WeeklyTrends ==
    /\ pc = "weekly_trends"
    /\ IF ~has({"WEEK", "TOTAL_WOUND_AREA"})
       THEN /\ weekly' = weekly
            /\ analysis' = put(analysis, "weekly_trends",
                               error_value("Weekly trends analysis failed"))
            /\ failed' = failed \cup {"weekly_trends"}
       ELSE IF ~has({"WOUND_COUNT"})
       THEN /\ weekly' = Bound(weekly_means(df))
            /\ analysis' = put(analysis, "weekly_trends",
                               error_value("Weekly trends analysis failed"))
            /\ failed' = failed \cup {"weekly_trends"}
       ELSE \/ /\ weekly' = Bound(weekly_frame(df))
               /\ analysis' = put(put(analysis, "weekly_trends_data", weekly_frame(df)),
                                  "weekly_trends",
                                  [figure |-> "line", frame |-> weekly_frame(df)])
               /\ UNCHANGED failed
            \/ /\ weekly' = weekly
               /\ analysis' = put(analysis, "weekly_trends",
                                  error_value("Weekly trends analysis failed"))
               /\ failed' = failed \cup {"weekly_trends"}
            \/ /\ weekly' = Bound(weekly_frame(df))
               /\ analysis' = put(put(analysis, "weekly_trends_data", weekly_frame(df)),
                                  "weekly_trends",
                                  error_value("Weekly trends analysis failed"))
               /\ failed' = failed \cup {"weekly_trends"}
    /\ pc' = "product_performance"
    /\ UNCHANGED <<df, parserVars, taskVars, sessionVars>>

\* lines 46-68
ProductPerformance ==
    /\ pc = "product_performance"
    /\ IF ~has({"NAME", "TOTAL_WOUND_AREA", "WOUND_COUNT"})
       THEN /\ analysis' = put(analysis, "product_performance",
                               error_value("Product performance analysis failed"))
            /\ failed' = failed \cup {"product_performance"}
       ELSE \/ /\ analysis' = put(analysis, "product_performance",
                                  product_figure(product_frame(df)))
               /\ UNCHANGED failed
            \/ /\ analysis' = put(analysis, "product_performance",
                                  error_value("Product performance analysis failed"))
               /\ failed' = failed \cup {"product_performance"}
    /\ pc' = "correlation_matrix"
    /\ UNCHANGED <<df, weekly, parserVars, taskVars, sessionVars>>

\* lines 70-76
CorrelationMatrix ==
    /\ pc = "correlation_matrix"
    /\ IF ~has(NumericCols)
       THEN /\ analysis' = put(analysis, "correlation_matrix",
                               error_value("Correlation matrix failed"))
            /\ failed' = failed \cup {"correlation_matrix"}
       ELSE \/ /\ analysis' = put(analysis, "correlation_matrix",
                                  [corr |-> numeric_frame(df)])
               /\ UNCHANGED failed
            \/ /\ analysis' = put(analysis, "correlation_matrix",
                                  error_value("Correlation matrix failed"))
               /\ failed' = failed \cup {"correlation_matrix"}
    /\ pc' = "seasonality"
    /\ UNCHANGED <<df, weekly, parserVars, taskVars, sessionVars>>

\* lines 78-89: len(weekly) raises NameError when line 31 left `weekly`
\* unbound; with more than 12 weeks seasonal_decompose runs and may raise;
\* otherwise the field is left out.  `failed` records only the stages in
\* which an operation on the data raised.
Decomposition ==
    /\ pc = "seasonality"
    /\ \/ /\ ~weekly.bound
          /\ analysis' = put(analysis, "seasonality",
                             error_value("Seasonality analysis failed"))
          /\ UNCHANGED failed
       \/ /\ weekly.bound /\ Len(weekly.frame) > SeasonalMinWeeks
          /\ analysis' = put(analysis, "seasonality",
                             [decomposed |-> mean_series(weekly.frame)])
          /\ UNCHANGED failed
       \/ /\ weekly.bound /\ Len(weekly.frame) > SeasonalMinWeeks
          /\ analysis' = put(analysis, "seasonality",
                             error_value("Seasonality analysis failed"))
          /\ failed' = failed \cup {"seasonality"}
       \/ /\ weekly.bound /\ Len(weekly.frame) <= SeasonalMinWeeks
          /\ UNCHANGED <<analysis, failed>>
    /\ pc' = "treatment_efficacy"
    /\ UNCHANGED <<df, weekly, parserVars, taskVars, sessionVars>>

\* lines 91-105
TreatmentEfficacy ==
    /\ pc = "treatment_efficacy"
    /\ IF ~has({"NAME", "TOTAL_WOUND_AREA", "WEEK"})
       THEN /\ analysis' = put(analysis, "treatment_efficacy",
                               error_value("Treatment efficacy analysis failed"))
            /\ failed' = failed \cup {"treatment_efficacy"}
       ELSE \/ /\ analysis' = put(analysis, "treatment_efficacy",
                                  [figure |-> "scatter", frame |-> efficacy_frame(df)])
               /\ UNCHANGED failed
            \/ /\ analysis' = put(analysis, "treatment_efficacy",
                                  error_value("Treatment efficacy analysis failed"))
               /\ failed' = failed \cup {"treatment_efficacy"}
    /\ pc' = "ttest_results"
    /\ UNCHANGED <<df, weekly, parserVars, taskVars, sessionVars>>

\* lines 107-136
TTests ==
    /\ pc = "ttest_results"
    /\ IF ~has({"WEEK", "TOTAL_WOUND_AREA"})
       THEN /\ analysis' = put(analysis, "ttest_results",
                               error_value("T-test analysis failed"))
            /\ failed' = failed \cup {"ttest_results"}
       ELSE \/ /\ analysis' = put(analysis, "ttest_results",
                                  [week_over_week |->
                                      ttest_records(df, sorted_as_strings(unique_weeks(df)))])
               /\ UNCHANGED failed
            \/ /\ analysis' = put(analysis, "ttest_results",
                                  error_value("T-test analysis failed"))
               /\ failed' = failed \cup {"ttest_results"}
    /\ pc' = "done"
    /\ UNCHANGED <<df, weekly, parserVars, taskVars, sessionVars>>

-----------------------------------------------------------------------------
(* Tables: up to MaxRows rows over three weeks and two products, a table    *)
(* per missing column, a table with a malformed week label, two tables at   *)
(* the decomposition threshold, two at the ranking cut-off, and two with a  *)
(* product whose areas are all zero                                        *)

MaxRows == 3

WeekNumbers == {1, 2, 10}

Row(label, nm) ==
    [WEEK |-> label, NAME |-> nm,
     TOTAL_WOUND_AREA |-> name_rank(nm), WOUND_COUNT |-> 3 - name_rank(nm),
     AVG_WOUND_AREA |-> 1]

\* a row of week 1 for a product of a given area
ProductRow(nm, area) ==
    [WEEK |-> WeekLabel(1), NAME |-> nm,
     TOTAL_WOUND_AREA |-> area, WOUND_COUNT |-> 1,
     AVG_WOUND_AREA |-> area]

RowKinds == {Row(WeekLabel(w), nm) : w \in WeekNumbers, nm \in {"A", "B"}}

\* a table keeps of each row the values of its own columns
Table(cols, rows) ==
    [columns |-> cols,
     rows |-> [i \in 1..Len(rows) |-> [c \in cols |-> rows[i][c]]],
     categories |-> <<>>]

Tables ==
    {Table(RequiredCols, rs) : rs \in UNION {[1..n -> RowKinds] : n \in 0..MaxRows}}
    \cup {Table(RequiredCols \ {c}, <<Row(WeekLabel(1), "A"), Row(WeekLabel(2), "B")>>) :
            c \in RequiredCols}
    \cup {Table(RequiredCols, <<Row(WeekPrefix \o <<"1", "b">>, "A")>>)}
    \cup {Table(RequiredCols, [i \in 1..n |-> Row(WeekLabel(i), "A")]) :
            n \in {SeasonalMinWeeks, SeasonalMinWeeks + 1}}
    \cup {Table(RequiredCols, [i \in 1..n |-> ProductRow(ProductNames[i], i)]) :
            n \in {TopProducts, TopProducts + 1}}
    \cup {Table(RequiredCols, <<ProductRow("A", 0)>>),
          Table(RequiredCols, <<ProductRow("A", 0), ProductRow("B", 2)>>)}

InitTrends ==
    /\ pc = "analyze"
    /\ df \in Tables
    /\ weekly = Unbound
    /\ analysis = EmptyDict
    /\ failed = {}
    /\ ParserIdle
    /\ TaskIdle
    /\ SessionIdle

NextTrends ==
    \/ CheckInput
    \/ OrderWeeks
    \/ WeeklyTrends
    \/ ProductPerformance
    \/ CorrelationMatrix
    \/ Decomposition
    \/ TreatmentEfficacy
    \/ TTests

SpecTrends == InitTrends /\ [][NextTrends]_vars

-----------------------------------------------------------------------------
(* Claims about analyze_trends                                             *)

\* the distinct week labels of the table in the order of their numbers
weeks_in_numeric_order == sorted_by_week_number(unique_weeks(df))

\* the run computed the pairwise week tests
TestsComputed ==
    /\ pc = "done"
    /\ "ttest_results" \in DOMAIN analysis
    /\ "ttest_results" \notin failed

\* C8: the pairwise week tests are one record per pair of weeks adjacent in
\* the numeric order of the distinct week labels: n - 1 records for n weeks,
\* record k comparing the k-th and the (k+1)-th week of that order.
C8_TestsPairNumericNeighbours ==
    TestsComputed =>
        LET records == analysis["ttest_results"].week_over_week
        IN  /\ Len(records) = Len(weeks_in_numeric_order) - 1
            /\ \A k \in 1..Len(records) :
                  /\ records[k].week1 = weeks_in_numeric_order[k]
                  /\ records[k].week2 = weeks_in_numeric_order[k + 1]

\* the fields a sub-computation writes
StageFields(stage) ==
    IF stage = "weekly_trends" THEN {"weekly_trends_data", "weekly_trends"} ELSE {stage}

Stages == {"weekly_trends", "product_performance", "correlation_matrix",
           "seasonality", "treatment_efficacy", "ttest_results"}

\* the result of a run of the accepted table in which nothing raises
unfailed_analysis ==
    LET fields == [weekly_trends_data  |-> weekly_frame(df),
                   weekly_trends       |-> [figure |-> "line", frame |-> weekly_frame(df)],
                   product_performance |-> product_figure(product_frame(df)),
                   correlation_matrix  |-> [corr |-> numeric_frame(df)],
                   seasonality         |-> [decomposed |-> mean_series(weekly_frame(df))],
                   treatment_efficacy  |-> [figure |-> "scatter", frame |-> efficacy_frame(df)],
                   ttest_results       |-> [week_over_week |->
                                              ttest_records(df, sorted_as_strings(unique_weeks(df)))]]
        present == IF Len(df.categories) > SeasonalMinWeeks
                   THEN DOMAIN fields ELSE DOMAIN fields \ {"seasonality"}
    IN  [k \in present |-> fields[k]]

\* C9: a sub-computation that fails leaves a tagged error in its own field,
\* and every field of the other sub-computations is what it would have been
\* had nothing failed; a weekly trend failure leaves seasonality as it was.
C9_FailureStaysInItsField ==
    (pc = "done" /\ failed # {}) =>
        /\ \A stage \in failed : DOMAIN analysis[stage] = {"error"}
        /\ \A stage \in Stages \ failed : \A key \in StageFields(stage) :
              /\ key \in DOMAIN analysis <=> key \in DOMAIN unfailed_analysis
              /\ key \in DOMAIN analysis => analysis[key] = unfailed_analysis[key]

\* the table is empty or lacks a required column
EmptyOrIncomplete == df.rows = <<>> \/ \E c \in RequiredCols : c \notin df.columns

\* C10: on an empty table, or a table missing a required column,
\* analyze_trends does not raise and returns a result whose only field is
\* `error`.
C10_RejectedInputOnlyError ==
    (EmptyOrIncomplete /\ pc # "analyze") =>
        /\ pc = "done"
        /\ DOMAIN analysis = {"error"}

\* a table with rows that lacks the WEEK column has been answered
C10_Witness ==
    /\ pc = "done"
    /\ df.rows # <<>>
    /\ "WEEK" \notin df.columns
    /\ DOMAIN analysis = {"error"}

\* the table passed the input check and the ordering of its week labels
ValidRun == pc = "done" /\ "error" \notin DOMAIN analysis

product_mean(nm) == sample(rows_where(df, "NAME", nm), "TOTAL_WOUND_AREA")
DistinctMeans ==
    \A a, b \in names_of(df) :
        a # b => mean_greater(product_mean(a), product_mean(b))
                 \/ mean_greater(product_mean(b), product_mean(a))

\* the products in descending order of mean, cut after the tenth
top_products ==
    LET P     == names_of(df)
        kept  == {x \in P :
                    Cardinality({y \in P : mean_greater(product_mean(y), product_mean(x))})
                        < TopProducts}
    IN  [k \in 1..Cardinality(kept) |->
            CHOOSE x \in kept :
                Cardinality({y \in P : mean_greater(product_mean(y), product_mean(x))}) = k - 1]

\* the names the stored ranking shows, in order
ranked_names ==
    LET frame == analysis["product_performance"].frame
    IN  IF analysis["product_performance"].figure = "bar"
        THEN [k \in 1..Len(frame) |-> frame[k].NAME] ELSE <<>>

RankingComputed ==
    /\ ValidRun
    /\ "product_performance" \notin failed
    /\ DistinctMeans

\* C12: with pairwise distinct product means the ranking keeps exactly the
\* min(10, P) products of highest mean, in descending order of mean; a
\* product is dropped only for ranking below tenth place.
C12_RankingKeepsTopTen ==
    RankingComputed => ranked_names = top_products

-----------------------------------------------------------------------------
(* create_hypothesis_task, src/modules/tasks.py:32-52, on the summaries     *)
(* summarize_analysis gives for a result that carries an `error` field      *)
(* (src/modules/analysis.py:153-155)                                        *)

SummaryLimit == 250
Ellipsis == <<".", ".", ".">>

\* json.dumps({'Error': message}, indent=2) for a message that needs no escape
json_dumps_error(message) ==
    <<"{", NL, " ", " ", "\"", "E", "r", "r", "o", "r", "\"", ":", " ", "\"">>
        \o message \o <<"\"", NL, "}">>

\* lines 153-155 of summarize_analysis
summarize_analysis(dict) == json_dumps_error(dict["error"])

\* tasks.py:35: summary[:250] + "..." if len(summary) > 250 else summary
truncate(text) ==
    IF Len(text) > SummaryLimit
    THEN SubSeq(text, 1, SummaryLimit) \o Ellipsis
    ELSE text

\* error messages of every length up to MaxMessageLen, of letters and digits
\* or of full stops
MaxMessageLen == 240
MessageChars == {<<"a", "1">>, <<".", ".">>}
Messages ==
    {[i \in 1..n |-> chars[(i % 2) + 1]] : n \in 0..MaxMessageLen, chars \in MessageChars}

InitTask ==
    /\ pc = "create_hypothesis_task"
    /\ \E message \in Messages : analysis = put(EmptyDict, "error", message)
    /\ df = NoTable /\ weekly = Unbound /\ failed = {}
    /\ TaskIdle
    /\ SessionIdle
    /\ ParserIdle

\* tasks.py:34-35
CreateHypothesisTask ==
    /\ pc = "create_hypothesis_task"
    /\ summary' = summarize_analysis(analysis)
    /\ truncated_summary' = truncate(summary')
    /\ pc' = "task_created"
    /\ UNCHANGED <<parserVars, trendVars, sessionVars>>

NextTask == CreateHypothesisTask

SpecTask == InitTask /\ [][NextTask]_vars

ends_with_marker(text) ==
    Len(text) >= Len(Ellipsis)
    /\ SubSeq(text, Len(text) - Len(Ellipsis) + 1, Len(text)) = Ellipsis

\* C13: the summary embedded in the hypothesis request is the whole summary
\* when that has at most 250 characters, and otherwise has at most 250
\* characters including the marker '...'; the marker is there exactly when
\* the summary was cut.
C13_EmbeddedSummaryWithinLimit ==
    pc = "task_created" =>
        /\ Len(summary) <= SummaryLimit => truncated_summary = summary
        /\ Len(summary) > SummaryLimit =>
              /\ Len(truncated_summary) <= SummaryLimit
              /\ ends_with_marker(truncated_summary)
        /\ ends_with_marker(truncated_summary) <=> Len(summary) > SummaryLimit

-----------------------------------------------------------------------------
(* main(), src/app.py:82-204.  Streamlit runs main() from the top on every *)
(* interaction: a file put into or taken out of the uploader, or a click   *)
(* on a button the previous run rendered.                                  *)

Files == {"a.csv", "b.csv", "c.csv", "d.csv", "broken.csv"}

\* load_data raises ValueError on a file that fails validation
load_data_raises(file) == file = "broken.csv"

\* the result analyze_trends returns for the table of a file
analysis_of(file) == [analysis_of |-> file]

\* what crew.kickoff() does: it raises, returns nothing, or returns a response
HypothesisResponses ==
    {[kind |-> "raw", text |-> <<"I", "t", " ", "r", "o", "s", "e", ".", NL,
                                 "I", "t", " ", "f", "e", "l", "l", ".">>],
     [kind |-> "str", text |-> AgentStopped \o <<".">>]}
ValidationResponses ==
    {[kind |-> "raw", text |-> StatusLabel \o <<" ", "o", "k", NL>>
                                 \o EvidenceLabel \o <<" ", "u", "p">>],
     [kind |-> "str", text |-> <<"n", "o", "t", "e">>],
     [kind |-> "other", text |-> <<"4", "2">>]}
ServiceOutcomes(responses) ==
    {[kind |-> "raises", output |-> NoResponse], [kind |-> "empty", output |-> NoResponse]}
    \cup {[kind |-> "response", output |-> o] : o \in responses}

rendering(kind, value) == [kind |-> kind, value |-> value]
\* st.error(f"{message}: {str(e)}. Raw output: {result}")
st_error(rs, message, detail) ==
    [rs EXCEPT !.rendered = Append(@, rendering("error", [message |-> message,
                                                          detail |-> detail])),
               !.failed = TRUE]
NoDetail == [none |-> TRUE]

\* lines 203-204: the outer handler ends the script
outer_except(rs) ==
    [st_error(rs, "An error occurred", NoDetail) EXCEPT !.aborted = TRUE]

\* lines 90-94
load_stage(rs, file) ==
    IF load_data_raises(file) THEN outer_except(rs)
    ELSE [rs EXCEPT !.session = put(@, "data", file),
                    !.rendered = @ \o <<rendering("success", "Data loaded successfully!"),
                                        rendering("data_summary", file)>>]

\* an Analyze handler that stores a result although analyze_trends raised
analyze_stage_storing_failure(rs, file, clicked, outcome) ==
    LET shown == [rs EXCEPT !.buttons = @ \cup {"analyze"}]
    IN  IF rs.aborted \/ clicked # "analyze" THEN (IF rs.aborted THEN rs ELSE shown)
        ELSE IF outcome = "returns"
        THEN [shown EXCEPT !.handlers = @ \cup {"analyze"},
                           !.session = put(@, "analysis_results", analysis_of(file))]
        ELSE [st_error(shown, "Analysis failed", NoDetail) EXCEPT
                  !.handlers = @ \cup {"analyze"},
                  !.session = put(@, "analysis_results", analysis_of(NoFile))]

\* lines 106-116
analyze_stage(rs, file, clicked, outcome) ==
    LET shown == [rs EXCEPT !.buttons = @ \cup {"analyze"}]
    IN  IF rs.aborted \/ clicked # "analyze" THEN (IF rs.aborted THEN rs ELSE shown)
        ELSE IF outcome = "returns"
        THEN [shown EXCEPT !.handlers = @ \cup {"analyze"},
                           !.session = put(@, "analysis_results", analysis_of(file))]
        ELSE [st_error(shown, "Analysis failed", NoDetail) EXCEPT !.handlers = @ \cup {"analyze"}]

\* a Generate handler that calls the service again after a failure
generate_hypotheses_retrying(rs, service) ==
    LET entered == [rs EXCEPT !.handlers = @ \cup {"generate"}, !.kickoffs = @ + 1]
        again   == [entered EXCEPT !.kickoffs = @ + 1]
        parsed  == parse_hypothesis_output(service.output)
    IN  IF service.kind = "raises" THEN outer_except(again)
        ELSE IF service.kind = "empty"
        THEN st_error(again, "Hypothesis generation returned no result", NoDetail)
        ELSE IF parsed.ok
        THEN [entered EXCEPT !.session = put(@, "hypotheses", parsed.value)]
        ELSE st_error(again, "Error extracting hypotheses",
                      [e |-> parsed.error, result |-> service.output])

\* lines 145-157, reached with hypothesis_clicked: one call of the service;
\* when kickoff raises, `result` is unbound and the handler's own message
\* (lines 155, 157) raises UnboundLocalError, which the outer handler takes
generate_hypotheses(rs, service) ==
    LET entered == [rs EXCEPT !.handlers = @ \cup {"generate"}, !.kickoffs = @ + 1]
        parsed  == parse_hypothesis_output(service.output)
    IN  IF service.kind = "raises" THEN outer_except(entered)
        ELSE IF service.kind = "empty"
        THEN st_error(entered, "Hypothesis generation returned no result", NoDetail)
        ELSE IF parsed.ok
        THEN [entered EXCEPT !.session = put(@, "hypotheses", parsed.value)]
        ELSE st_error(entered, "Error extracting hypotheses",
                      [e |-> parsed.error, result |-> service.output])

\* line 118: the summary, the charts and the button are inside the test
generate_button_shown(session) == "analysis_results" \in DOMAIN session

\* a Generate button outside the test of line 118
analysis_stage_ungated(rs, clicked, service) ==
    IF rs.aborted THEN rs
    ELSE LET summary_shown ==
                IF generate_button_shown(rs.session)
                THEN [rs EXCEPT !.rendered = @ \o
                               <<rendering("analysis_summary", rs.session["analysis_results"]),
                                 rendering("chart", "weekly_trends"),
                                 rendering("chart", "product_performance")>>]
                ELSE rs
             shown == [summary_shown EXCEPT !.buttons = @ \cup {"generate"}]
         IN  IF clicked = "generate" THEN generate_hypotheses(shown, service) ELSE shown

\* lines 117-157
analysis_stage(rs, clicked, service) ==
    IF rs.aborted \/ ~generate_button_shown(rs.session) THEN rs
    ELSE LET shown ==
                [rs EXCEPT !.rendered = @ \o
                               <<rendering("analysis_summary", rs.session["analysis_results"]),
                                 rendering("chart", "weekly_trends"),
                                 rendering("chart", "product_performance")>>,
                           !.buttons = @ \cup {"generate"}]
         IN  IF clicked = "generate" THEN generate_hypotheses(shown, service) ELSE shown

\* lines 174-191, reached with validate_clicked
validate_hypotheses(rs, service) ==
    LET entered == [rs EXCEPT !.handlers = @ \cup {"validate"}, !.kickoffs = @ + 1]
        parsed  == IF service.output.kind = "other"
                   THEN Raised(<<"Unexpected result format: ">>, <<>>)
                   ELSE parse_validation_output([kind |-> "str", text |-> service.output.text])
    IN  IF service.kind = "raises" THEN outer_except(entered)
        ELSE IF service.kind = "empty"
        THEN st_error(entered, "Validation returned no result", NoDetail)
        ELSE IF parsed.ok
        THEN [entered EXCEPT !.session = put(@, "validation_results", parsed.value)]
        ELSE st_error(entered, "Error extracting validation results",
                      [e |-> parsed.error, result |-> service.output])

\* line 160
validate_button_shown(session) == "hypotheses" \in DOMAIN session

\* lines 159-191
hypotheses_stage(rs, clicked, service) ==
    IF rs.aborted \/ ~validate_button_shown(rs.session) THEN rs
    ELSE LET shown ==
                [rs EXCEPT !.rendered = Append(@, rendering("hypotheses", rs.session["hypotheses"])),
                           !.buttons = @ \cup {"validate"}]
         IN  IF clicked = "validate" THEN validate_hypotheses(shown, service) ELSE shown

\* zip(hypotheses, validation_results), line 197
zip(xs, ys) ==
    [i \in 1..(IF Len(xs) < Len(ys) THEN Len(xs) ELSE Len(ys)) |-> <<xs[i], ys[i]>>]

\* lines 193-201
validation_stage(rs) ==
    IF rs.aborted
       \/ ~({"validation_results", "hypotheses"} \subseteq DOMAIN rs.session) THEN rs
    ELSE [rs EXCEPT !.rendered =
             Append(@, rendering("validations",
                                 zip(rs.session["hypotheses"], rs.session["validation_results"])))]

\* one run of main() for the action `clicked`
main(session, file, clicked, analysed, generated, validated) ==
    LET start == [NoRun EXCEPT !.action = clicked] @@ [session |-> session]
    IN  IF file = NoFile THEN start
        ELSE validation_stage(
                 hypotheses_stage(
                     analysis_stage(
                         analyze_stage(load_stage(start, file), file, clicked, analysed),
                         clicked, generated),
                     clicked, validated))

\* the run without the session it leaves
shown_run(rs) == [f \in DOMAIN NoRun |-> rs[f]]

InitSession ==
    /\ pc = "session"
    /\ SessionIdle
    /\ ParserIdle
    /\ TrendsIdle
    /\ TaskIdle

Rerun(file, clicked) ==
    \E analysed \in {"returns", "raises"},
       generated \in ServiceOutcomes(HypothesisResponses),
       validated \in ServiceOutcomes(ValidationResponses) :
        LET rs == main(session_state, file, clicked, analysed, generated, validated)
        IN  /\ uploaded_file' = file
            /\ session_state' = rs.session
            /\ run' = shown_run(rs)
            /\ UNCHANGED <<pc, parserVars, trendVars, taskVars>>

\* a file is put into the uploader
UploadFile ==
    /\ pc = "session"
    /\ \E file \in Files : file # uploaded_file /\ Rerun(file, "upload")

\* the file is taken out of the uploader
RemoveFile ==
    /\ pc = "session"
    /\ uploaded_file # NoFile
    /\ Rerun(NoFile, "remove")

\* a button the latest run rendered is clicked
ClickButton ==
    /\ pc = "session"
    /\ \E button \in run.buttons : Rerun(uploaded_file, button)

NextSession == UploadFile \/ RemoveFile \/ ClickButton

SpecSession == InitSession /\ [][NextSession]_vars

-----------------------------------------------------------------------------
(* Claims about the session                                                *)

stored(slot) == slot \in DOMAIN session_state

\* No run of main() stores a hypothesis list or enters the Validate
\* Hypotheses handler: the hypothesis parser never returns one.
NoHypothesisListStored ==
    /\ ~stored("hypotheses")
    /\ ~stored("validation_results")
    /\ "validate" \notin run.handlers

\* C14: the slots fill in pipeline order (a hypothesis list only with an
\* analysis result, a validation list only with a hypothesis list), the
\* Generate Hypotheses handler runs only with a stored analysis result and
\* the Validate Hypotheses handler only with a stored hypothesis list.
C14_SlotsInPipelineOrder ==
    /\ stored("hypotheses") => stored("analysis_results")
    /\ stored("validation_results") => stored("hypotheses")
    /\ "generate" \in run.handlers => stored("analysis_results")
    /\ "validate" \in run.handlers => stored("hypotheses")

\* Generate Hypotheses has run, on a stored analysis result
C14_Witness ==
    /\ run.action = "generate"
    /\ "generate" \in run.handlers
    /\ stored("analysis_results")

errors_rendered == {i \in 1..Len(run.rendered) : run.rendered[i].kind = "error"}

\* C15: a Generate Hypotheses or Validate Hypotheses action calls the
\* text-generation service at most once, and when the call raises, returns
\* nothing or returns text that does not parse, the action ends with an
\* error shown to the user and without a second call.
C15_OneServiceCallPerAction ==
    /\ run.kickoffs <= 1
    /\ run.action \in {"generate", "validate"} => run.kickoffs = 1
    /\ run.failed => errors_rendered # {}
    /\ (run.action = "generate" /\ ~stored("hypotheses")) => run.failed
    /\ (run.action = "validate" /\ ~stored("validation_results")) => run.failed

\* a Generate Hypotheses action whose response did not parse
C15_Witness ==
    /\ run.action = "generate"
    /\ run.kickoffs = 1
    /\ run.failed
    /\ \E i \in errors_rendered :
          run.rendered[i].value.message = "Error extracting hypotheses"

\* C16: when a user action fails, its error message is the only thing
\* rendered: no analysis summary, hypothesis list or validation list, fresh
\* or stored, is rendered with it.
C16_ErrorRenderedAlone ==
    run.failed =>
        \A i \in 1..Len(run.rendered) :
            run.rendered[i].kind \notin {"analysis_summary", "hypotheses", "validations"}

Slots == {"analysis_results", "hypotheses", "validation_results"}
slot_action(slot) ==
    CASE slot = "analysis_results" -> "analyze"
      [] slot = "hypotheses" -> "generate"
      [] slot = "validation_results" -> "validate"

\* the slot, whether it is filled, and with what
slot_of(session, slot) ==
    IF slot \in DOMAIN session
    THEN [filled |-> TRUE, value |-> <<session[slot]>>]
    ELSE [filled |-> FALSE, value |-> <<>>]

\* C17: a failed action leaves the analysis, hypothesis and validation slots
\* as they were, and a slot changes only in a successful run of its own
\* action.
C17_FailedActionKeepsSlots ==
    [][\A slot \in Slots :
          slot_of(session_state', slot) # slot_of(session_state, slot)
              => (~run'.failed /\ run'.action = slot_action(slot))]_vars

\* a failed Generate Hypotheses action with the analysis result still stored
C17_Witness ==
    /\ run.failed
    /\ run.action = "generate"
    /\ stored("analysis_results")
    /\ session_state["analysis_results"] = analysis_of(uploaded_file)

====
